---- MODULE Spec2Model ----
(***************************************************************************)
(* Daily.dev Streak Keeper: the background script (src/src/js/background.js)*)
(* as a state machine.  One action per event handler or callback.          *)
(*                                                                         *)
(* Storage.  chrome.storage.local serves the requests of the background    *)
(* script in the order they were issued, so a get returns the state left   *)
(* by every set issued before it.  The model therefore takes the snapshot  *)
(* of a get, and applies the fields of a set, in the step that issues the  *)
(* request; the callback is a continuation that runs in a later step.      *)
(*                                                                         *)
(* Callbacks.  Every scheduled callback (storage callback, script result,  *)
(* tab creation, timer) is a continuation record in `pending`; every       *)
(* chrome.tabs.onUpdated listener added at run time is a record in         *)
(* `listeners`.  The records of one operation share the operation's id.    *)
(***************************************************************************)
EXTENDS Integers, FiniteSets, Sequences, TLC

VARIABLES
    store,      \* chrome.storage.local: key -> value
    now,        \* the clock: Date.now()
    pending,    \* scheduled callbacks
    listeners,  \* chrome.tabs.onUpdated listeners added at run time
    openTabs,   \* tabs opened by chrome.tabs.create and not yet removed
    effects,    \* what the last step did to the browser (scripts, tabs, notifications)
    observed,   \* the count the last step got from an injected script
    before,     \* the store as it was before the last step
    started,    \* external events so far
    reminder    \* the last call of getNextReminderTime: arguments, clock, result

vars == <<store, now, pending, listeners, openTabs, effects, observed, before, started,
          reminder>>

(* ------------------------------ bounds -------------------------------- *)

\* calendar days are 0..MaxDay
MaxDay == 2
\* finite observed counts are 0..MaxCount
MaxCount == 1
\* operations in flight at the same time
MaxOps == 2
\* browser tabs the user has open
MaxTabs == 1
\* external events (page loads, alarms, messages, installs) in one behaviour
MaxEvents == 2
\* milliseconds around the alarm's time of day at which the clock is read
MaxSkew == 1

(* ------------------------ JavaScript values --------------------------- *)

Num(n) == [t |-> "num", v |-> n]
INF == [t |-> "inf", v |-> 0]
NAN == [t |-> "nan", v |-> 0]
NULL == [t |-> "null", v |-> 0]
UNDEF == [t |-> "undef", v |-> 0]
Bool(b) == [t |-> "bool", v |-> IF b THEN 1 ELSE 0]
\* the string Date.prototype.toDateString() returns for calendar day d
DateString(d) == [t |-> "date", v |-> d]

\* the clock has two instants per calendar day
Instants == 0..(2 * MaxDay)

\* new Date().toDateString(): the calendar day of an instant
toDateString(instant) == DateString(instant \div 2)

\* yesterday.setDate(yesterday.getDate() - 1); yesterday.toDateString()
yesterdayString(instant) == DateString((instant \div 2) - 1)

\* !x
Falsy(x) ==
    CASE x.t = "num" -> x.v = 0
      [] x.t = "bool" -> x.v = 0
      [] x.t \in {"nan", "null", "undef"} -> TRUE
      [] OTHER -> FALSE

\* isNaN(x): x is converted to a number first
isNaN(x) ==
    CASE x.t \in {"num", "inf", "null", "bool"} -> FALSE
      [] OTHER -> TRUE

\* x + 1 for the values a stored streak can have
PlusOne(x) ==
    CASE x.t = "num" -> Num(x.v + 1)
      [] x.t = "inf" -> INF
      [] x.t = "null" -> Num(1)
      [] OTHER -> NAN

(* ------------------------------ storage ------------------------------- *)

\* chrome.storage.local.set(items): the given keys are merged into the store
StorageSet(s, items) ==
    [k \in (DOMAIN s) \cup (DOMAIN items) |->
        IF k \in DOMAIN items THEN items[k] ELSE s[k]]

\* result.key of a chrome.storage.local.get callback
StorageGet(s, k) == IF k \in DOMAIN s THEN s[k] ELSE UNDEF

\* variant of InstallItems from before the sync fields existed
InstallItemsWithoutSync ==
    [streak |-> Num(0), lastVisit |-> NULL, streakMaintainedToday |-> Bool(FALSE)]

\* the items the onInstalled listener writes
InstallItems ==
    [streak |-> Num(0), lastVisit |-> NULL, streakMaintainedToday |-> Bool(FALSE),
     syncedWithDailyDev |-> Bool(FALSE), lastSyncTime |-> NULL]

(* --------------------------- continuations ---------------------------- *)

\* a scheduled callback: kind, operation id, tab, observed count, the
\* lastVisit and streak of a storage snapshot, error flag, a boolean local
Cont(k, id, tab, cnt, lv, st, err, flag) ==
    [k |-> k, id |-> id, tab |-> tab, cnt |-> cnt, lv |-> lv, st |-> st,
     err |-> err, flag |-> flag]

\* a chrome.tabs.onUpdated listener added at run time, with the variables
\* its closure captured (alreadyMaintained and today in the force sync)
Listener(k, id, tab, flag, lv) == [k |-> k, id |-> id, tab |-> tab, flag |-> flag, lv |-> lv]

OpIds == 1..MaxOps
Tabs == 1..MaxTabs

\* tab ids a callback or listener still refers to, or that are open
TabsInUse == openTabs \cup {c.tab : c \in pending} \cup {l.tab : l \in listeners}

\* the id of the tab chrome.tabs.create opens: one no other tab has or had
\* (every opened tab belongs to an event, so MaxEvents ids are enough)
NewTab ==
    CHOOSE t \in ((MaxTabs + 1)..(MaxTabs + MaxEvents)) \ TabsInUse :
        \A u \in ((MaxTabs + 1)..(MaxTabs + MaxEvents)) \ TabsInUse : t <= u

UsedIds == {c.id : c \in pending} \cup {l.id : l \in listeners}

\* the id a new operation gets: the smallest one not in use
FreeId == CHOOSE i \in OpIds \ UsedIds : \A j \in OpIds \ UsedIds : i <= j

\* a new operation can start
CanStart == OpIds \ UsedIds # {} /\ started < MaxEvents

\* a new operation can start and no other operation is in flight
CanStartAlone == UsedIds = {} /\ started < MaxEvents

(* ------------------------- page automation ---------------------------- *)

\* parseInt(matches[0], 10) of a run of digits found in the page: a finite
\* non-negative integer, or Infinity for a run too long for a double.
\* null when no element with a number was found.  executeScript is taken to
\* hand the callback the value the injected function returned; a browser
\* that drops a non-finite number hands over null or undefined instead,
\* which the handlers treat as the null drawn here.
ObservedCounts == {Num(n) : n \in 0..MaxCount} \cup {INF, NULL}

\* what clickFirstArticle finds on the page
Pages == {"onArticle", "linkToPost", "linkElsewhere", "noLink", "noArticles", "throws"}

\* the status object clickFirstArticle returns (clicked is still false when a
\* link was found: the click runs on a 500 ms timer after the return)
clickFirstArticle(page, count) ==
    [articlesFound |-> page \in {"onArticle", "linkToPost", "linkElsewhere", "noLink"},
     linkFound |-> page \in {"onArticle", "linkToPost", "linkElsewhere"},
     clicked |-> page = "onArticle",
     articleUrlPosts |-> page \in {"onArticle", "linkToPost"},
     streakCount |-> count]

(* --------------------------- alarm times ------------------------------ *)

\* milliseconds in a day: 24 * 60 * 60 * 1000
MsPerDay == 24 * 60 * 60 * 1000

\* date.setHours(hour, minute, 0, 0); date.getTime(), for a clock without
\* daylight-saving changes
setHours(ms, hour, minute) == (ms - (ms % MsPerDay)) + ((hour * 60) + minute) * 60000

\* getNextReminderTime(hour, minute): nowMs and reminderMs are the readings
\* of the two new Date() calls, the second not before the first
getNextReminderTime(hour, minute, nowMs, reminderMs) ==
    IF nowMs > setHours(reminderMs, hour, minute)
    THEN setHours(reminderMs, hour, minute) + MsPerDay
    ELSE setHours(reminderMs, hour, minute)

\* no call of getNextReminderTime yet
NoCall == [name |-> "", hour |-> 0, minute |-> 0, now |-> 0, lag |-> 0, when |-> -1]

\* the times of day of the alarms
FIRST_REMINDER_HOUR == 19
FIRST_REMINDER_MINUTE == 0
SECOND_REMINDER_HOUR == 22
SECOND_REMINDER_MINUTE == 0
FIRST_FAILSAFE_HOUR == 20
FIRST_FAILSAFE_MINUTE == 0
SECOND_FAILSAFE_HOUR == 22
SECOND_FAILSAFE_MINUTE == 15
FORCE_SYNC_HOUR == 18
FORCE_SYNC_MINUTE == 0

\* the hour and minute setupAlarms passes to getNextReminderTime for an alarm
AlarmTime(name) ==
    CASE name = "forceStreakSync" ->
            [hour |-> FORCE_SYNC_HOUR, minute |-> FORCE_SYNC_MINUTE]
      [] name = "firstStreakReminder" ->
            [hour |-> FIRST_REMINDER_HOUR, minute |-> FIRST_REMINDER_MINUTE]
      [] name = "secondStreakReminder" ->
            [hour |-> SECOND_REMINDER_HOUR, minute |-> SECOND_REMINDER_MINUTE]
      [] name = "firstStreakFailsafe" ->
            [hour |-> FIRST_FAILSAFE_HOUR, minute |-> FIRST_FAILSAFE_MINUTE]
      [] OTHER ->
            [hour |-> SECOND_FAILSAFE_HOUR, minute |-> SECOND_FAILSAFE_MINUTE]

\* formatTime(hour, minute): the en-US 12-hour reading "h:mm AM/PM"
formatTime(hour, minute) ==
    [hour |-> IF hour % 12 = 0 THEN 12 ELSE hour % 12, minute |-> minute,
     pm |-> hour >= 12]

(* ------------------------------ actions ------------------------------- *)

Init ==
    /\ store = InstallItems
    /\ now = 0
    /\ pending = {}
    /\ listeners = {}
    /\ openTabs = {}
    /\ effects = {}
    /\ observed = UNDEF
    /\ before = InstallItems
    /\ started = 0
    /\ reminder = NoCall

\* the clock advances
Tick ==
    /\ now + 1 \in Instants
    /\ now' = now + 1
    /\ effects' = {}
    /\ UNCHANGED <<store, pending, listeners, openTabs, started>>
    /\ observed' = UNDEF
    /\ before' = store
    /\ UNCHANGED reminder

\* variant of NotVisitedToday that compares lastVisit with yesterday
NotVisitedTodayComparesYesterday(lastVisit, instant) ==
    Falsy(lastVisit) \/ lastVisit # yesterdayString(instant)

\* variant of NotVisitedToday that compares lastVisit with a value it never equals
NotVisitedTodayAlways(lastVisit, instant) ==
    Falsy(lastVisit) \/ lastVisit # Num(instant)

\* !result.lastVisit || result.lastVisit !== today
NotVisitedToday(lastVisit, instant) ==
    Falsy(lastVisit) \/ lastVisit # toDateString(instant)

\* handleDailyDevPageLoad(tabId): issues the read of lastVisit
handleDailyDevPageLoad(id, tabId) ==
    {Cont("hdl_get", id, tabId, NULL, StorageGet(store, "lastVisit"), NULL, FALSE, FALSE)}

\* clickArticleAndUpdateStreak(tabId): injects clickFirstArticle
clickArticleAndUpdateStreak(id, tabId) ==
    {Cont("click_cb", id, tabId, NULL, NULL, NULL, FALSE, FALSE)}

\* updateStreakWithCount(streakCount): issues the read of lastVisit
updateStreakWithCount(id, streakCount) ==
    {Cont("usc_get", id, 0, streakCount, StorageGet(store, "lastVisit"), NULL, FALSE, FALSE)}

\* updateStreak(): issues the read of streak and lastVisit
updateStreak(id) ==
    {Cont("us_get", id, 0, NULL, StorageGet(store, "lastVisit"),
          StorageGet(store, "streak"), FALSE, FALSE)}

\* the listeners that react to a load-complete event of tab tabId at url
Reacting(tabId, url) ==
    {l \in listeners :
        \/ l.k = "articleLoad" /\ url.posts
        \/ l.k \in {"failsafeLoad", "syncLoad", "manualLoad"} /\ l.tab = tabId}

\* what a reacting listener schedules
ListenerStep(l, tabId) ==
    CASE l.k = "articleLoad" ->
            Cont("art_extract", l.id, tabId, NULL, NULL, NULL, FALSE, FALSE)
      [] l.k = "failsafeLoad" ->
            Cont("fs_delay", l.id, l.tab, NULL, NULL, NULL, FALSE, FALSE)
      [] l.k = "syncLoad" ->
            Cont("sync_delay", l.id, l.tab, NULL, l.lv, NULL, FALSE, l.flag)
      [] OTHER ->
            Cont("manual_delay", l.id, l.tab, NULL, NULL, NULL, FALSE, FALSE)

Urls == [dailydev : BOOLEAN, posts : BOOLEAN]

\* chrome.tabs.onUpdated fires with changeInfo.status === "complete": the
\* global listener and every listener added at run time see the event.
\* A tab the extension opened for daily.dev can end its load at another
\* address (a redirect, a sign-in page): the listeners added at run time compare
\* the tab id only.
TabUpdatedWhen(canStart) ==
    \E tabId \in Tabs \cup openTabs, url \in Urls :
        /\ url.dailydev => canStart
        /\ pending' = pending
              \cup (IF url.dailydev THEN handleDailyDevPageLoad(FreeId, tabId) ELSE {})
              \cup {ListenerStep(l, tabId) : l \in Reacting(tabId, url)}
        /\ listeners' = listeners \ Reacting(tabId, url)
        /\ effects' = IF \E l \in Reacting(tabId, url) : l.k = "articleLoad"
                      THEN {"inject:extract"} ELSE {}
        /\ started' = IF url.dailydev THEN started + 1 ELSE started
        /\ UNCHANGED <<store, now, openTabs>>
        /\ observed' = UNDEF
        /\ before' = store
        /\ UNCHANGED reminder

TabUpdated == TabUpdatedWhen(CanStart)

\* callback of the read in handleDailyDevPageLoad (rerr: chrome.runtime.lastError)
PageLoadRead ==
    \E c \in pending, rerr \in BOOLEAN :
        /\ c.k = "hdl_get"
        /\ IF ~rerr /\ NotVisitedToday(c.lv, now)
           THEN /\ pending' = (pending \ {c}) \cup clickArticleAndUpdateStreak(c.id, c.tab)
                /\ effects' = {"inject:click"}
           ELSE /\ pending' = pending \ {c}
                /\ effects' = IF rerr THEN {"log:storageError"} ELSE {}
        /\ UNCHANGED <<store, now, listeners, openTabs, started>>
        /\ observed' = UNDEF
        /\ before' = store
        /\ UNCHANGED reminder

\* status.streakCount !== null && !isNaN(status.streakCount)
ClickCountUsable(count) == count # NULL /\ ~isNaN(count)

\* results[0].result && !isNaN(results[0].result)
ExtractedCountUsable(result) == ~Falsy(result) /\ ~isNaN(result)

\* variant of WaitsForArticle that waits whenever articles were found
WaitsForArticleWithoutLink(status) ==
    status.articlesFound

\* status.articlesFound && status.linkFound: wait for the article to load
WaitsForArticle(status) ==
    status.articlesFound /\ status.linkFound

\* the timer clickFirstArticle sets in the page when it found a link:
\* setTimeout(() => { link.click(); status.clicked = true; }, 500)
LinkClickTimer(status, id, tabId) ==
    IF status.linkFound /\ ~status.clicked
    THEN {Cont("link_click", id, tabId, NULL, NULL, NULL, FALSE, FALSE)}
    ELSE {}

\* callback of executeScript(clickFirstArticle) in clickArticleAndUpdateStreak;
\* the status it logs is kept in effects as the page it was computed from.
\* With pageTimers the timer the injected function left in the page is
\* kept among the scheduled callbacks.
ClickResultWhen(pageTimers) ==
    \E c \in pending, outcome \in {"error", "empty", "status"},
       page \in Pages, count \in ObservedCounts :
        /\ c.k = "click_cb"
        /\ LET status == clickFirstArticle(page, count) IN
           IF outcome # "status"
           THEN /\ pending' = pending \ {c}
                /\ UNCHANGED listeners
                /\ effects' = IF outcome = "error" THEN {"log:scriptError"}
                                                   ELSE {"log:noResults"}
           ELSE IF status.clicked \/ status.articleUrlPosts
           THEN /\ pending' = (pending \ {c}) \cup
                       (IF ClickCountUsable(status.streakCount)
                        THEN updateStreakWithCount(c.id, status.streakCount)
                        ELSE updateStreak(c.id)) \cup
                       (IF pageTimers THEN LinkClickTimer(status, c.id, c.tab) ELSE {})
                /\ UNCHANGED listeners
                /\ effects' = {"log:status", page}
           ELSE IF WaitsForArticle(status)
           THEN /\ listeners' = listeners \cup {Listener("articleLoad", c.id, c.tab, FALSE, NULL)}
                /\ pending' = (pending \ {c}) \cup
                       {Cont("art_timeout", c.id, c.tab, NULL, NULL, NULL, FALSE, FALSE)} \cup
                       (IF pageTimers THEN LinkClickTimer(status, c.id, c.tab) ELSE {})
                /\ effects' = {"log:status", page}
           ELSE /\ pending' = pending \ {c}
                /\ UNCHANGED listeners
                /\ effects' = {"log:status", page, "log:clickFailed"}
        /\ UNCHANGED <<store, now, openTabs, started>>
        /\ observed' = IF outcome = "status" THEN count ELSE UNDEF
        /\ before' = store
        /\ UNCHANGED reminder

\* the callback as the background script sees it: the page's timer is left
\* to the page
ClickResult == ClickResultWhen(FALSE)

\* the callback together with the timer left in the page
ClickResultTimed == ClickResultWhen(TRUE)

\* the 500 ms timer in the page runs: link.click()
LinkClicked ==
    \E c \in pending :
        /\ c.k = "link_click"
        /\ pending' = pending \ {c}
        /\ effects' = {"page:click"}
        /\ UNCHANGED <<store, now, listeners, openTabs, started>>
        /\ observed' = UNDEF
        /\ before' = store
        /\ UNCHANGED reminder

\* the 15 s timer of clickArticleAndUpdateStreak removes articleLoadListener
ArticleTimeout ==
    \E c \in pending :
        /\ c.k = "art_timeout"
        /\ pending' = pending \ {c}
        /\ listeners' = listeners \ {Listener("articleLoad", c.id, c.tab, FALSE, NULL)}
        /\ effects' = {}
        /\ UNCHANGED <<store, now, openTabs, started>>
        /\ observed' = UNDEF
        /\ before' = store
        /\ UNCHANGED reminder

\* callback of executeScript(extractStreakCountFromPage) in articleLoadListener
ArticleExtractResult ==
    \E c \in pending, outcome \in {"error", "empty", "result"},
       result \in ObservedCounts :
        /\ c.k = "art_extract"
        /\ pending' = (pending \ {c}) \cup
              (IF outcome = "result" /\ ExtractedCountUsable(result)
               THEN updateStreakWithCount(c.id, result)
               ELSE updateStreak(c.id))
        /\ effects' = {}
        /\ UNCHANGED <<store, now, listeners, openTabs, started>>
        /\ observed' = IF outcome = "result" THEN result ELSE UNDEF
        /\ before' = store
        /\ UNCHANGED reminder

\* a streak value is lower than another
Lower(a, b) ==
    \/ a.t = "num" /\ b.t = "num" /\ a.v < b.v
    \/ a.t = "num" /\ b.t = "inf"

\* variant of SyncedItems that never lowers the stored streak
SyncedItemsKeepHigher(streakCount, instant) ==
    [streak |-> IF Lower(streakCount, store.streak) THEN store.streak ELSE streakCount,
     lastVisit |-> toDateString(instant),
     streakMaintainedToday |-> Bool(TRUE), syncedWithDailyDev |-> Bool(TRUE),
     lastSyncTime |-> Num(instant)]

\* the items updateStreakWithCount writes
SyncedItems(streakCount, instant) ==
    [streak |-> streakCount, lastVisit |-> toDateString(instant),
     streakMaintainedToday |-> Bool(TRUE), syncedWithDailyDev |-> Bool(TRUE),
     lastSyncTime |-> Num(instant)]

\* callback of the read in updateStreakWithCount: writes the synced items
SyncedRead ==
    \E c \in pending, rerr \in BOOLEAN, werr \in BOOLEAN :
        /\ c.k = "usc_get"
        /\ IF rerr
           THEN /\ pending' = pending \ {c}
                /\ UNCHANGED store
           ELSE /\ store' = IF werr THEN store
                            ELSE StorageSet(store, SyncedItems(c.cnt, now))
                /\ pending' = (pending \ {c}) \cup
                       {Cont("usc_set", c.id, 0, c.cnt, c.lv, NULL, werr,
                             NotVisitedToday(c.lv, now))}
        /\ effects' = IF rerr THEN {"log:storageError"}
                      ELSE IF ~werr THEN {"set:synced"} ELSE {}
        /\ UNCHANGED <<now, listeners, openTabs, started>>
        /\ observed' = UNDEF
        /\ before' = store
        /\ UNCHANGED reminder

\* callback of the write in updateStreakWithCount
SyncedWritten ==
    \E c \in pending :
        /\ c.k = "usc_set"
        /\ pending' = pending \ {c}
        /\ effects' = IF ~c.err /\ c.flag THEN {"notify:maintained"} ELSE {}
        /\ UNCHANGED <<store, now, listeners, openTabs, started>>
        /\ observed' = UNDEF
        /\ before' = store
        /\ UNCHANGED reminder

\* variant of newStreak that forgets the increment
newStreakNoIncrement(lastVisit, streak, instant) ==
    IF lastVisit = yesterdayString(instant) THEN streak ELSE Num(1)

\* variant of newStreak that continues the streak after any earlier visit
newStreakAnyGap(lastVisit, streak, instant) ==
    IF lastVisit.t = "date" THEN PlusOne(streak) ELSE Num(1)

\* newStreak in updateStreak
newStreak(lastVisit, streak, instant) ==
    IF lastVisit = yesterdayString(instant) THEN PlusOne(streak) ELSE Num(1)

\* the items updateStreak writes
InternalItems(lastVisit, streak, instant) ==
    [streak |-> newStreak(lastVisit, streak, instant),
     lastVisit |-> toDateString(instant),
     streakMaintainedToday |-> Bool(TRUE), syncedWithDailyDev |-> Bool(FALSE)]

\* variant of InternalStore without the first-visit-of-the-day test
InternalStoreUnguarded(s, lastVisit, streak, instant) ==
    StorageSet(s, InternalItems(lastVisit, streak, instant))

\* the store s after the storage callback of updateStreak has run at instant
\* with result.lastVisit = lastVisit and result.streak = streak, the write
\* succeeding
InternalStore(s, lastVisit, streak, instant) ==
    IF NotVisitedToday(lastVisit, instant)
    THEN StorageSet(s, InternalItems(lastVisit, streak, instant))
    ELSE s

\* one run of updateStreak on the store s at instant, nothing interleaved and
\* both storage operations succeeding
updateStreakAlone(s, instant) ==
    InternalStore(s, StorageGet(s, "lastVisit"), StorageGet(s, "streak"), instant)

\* variant of InternalRead that logs a failed read and carries on
InternalReadIgnoresError ==
    \E c \in pending, rerr \in BOOLEAN, werr \in BOOLEAN :
        /\ c.k = "us_get"
        /\ IF NotVisitedToday(c.lv, now)
           THEN /\ store' = IF werr THEN store
                            ELSE InternalStore(store, c.lv, c.st, now)
                /\ pending' = (pending \ {c}) \cup
                       {Cont("us_set", c.id, 0, NULL, c.lv, c.st, werr, FALSE)}
           ELSE /\ pending' = pending \ {c}
                /\ UNCHANGED store
        /\ effects' = IF rerr THEN {"log:storageError"}
                      ELSE IF NotVisitedToday(c.lv, now) /\ ~werr
                      THEN {"set:internal"} ELSE {}
        /\ UNCHANGED <<now, listeners, openTabs, started>>
        /\ observed' = UNDEF
        /\ before' = store
        /\ UNCHANGED reminder

\* callback of the read in updateStreak: the internal path
InternalRead ==
    \E c \in pending, rerr \in BOOLEAN, werr \in BOOLEAN :
        /\ c.k = "us_get"
        /\ IF ~rerr /\ NotVisitedToday(c.lv, now)
           THEN /\ store' = IF werr THEN store
                            ELSE InternalStore(store, c.lv, c.st, now)
                /\ pending' = (pending \ {c}) \cup
                       {Cont("us_set", c.id, 0, NULL, c.lv, c.st, werr, FALSE)}
           ELSE /\ pending' = pending \ {c}
                /\ UNCHANGED store
        /\ effects' = IF rerr THEN {"log:storageError"}
                      ELSE IF NotVisitedToday(c.lv, now) /\ ~werr
                      THEN {"set:internal"} ELSE {}
        /\ UNCHANGED <<now, listeners, openTabs, started>>
        /\ observed' = UNDEF
        /\ before' = store
        /\ UNCHANGED reminder

\* callback of the write in updateStreak
InternalWritten ==
    \E c \in pending :
        /\ c.k = "us_set"
        /\ pending' = pending \ {c}
        /\ effects' = IF ~c.err THEN {"notify:maintained"} ELSE {}
        /\ UNCHANGED <<store, now, listeners, openTabs, started>>
        /\ observed' = UNDEF
        /\ before' = store
        /\ UNCHANGED reminder

\* chrome.runtime.onInstalled (install or update of the extension)
OnInstalledWhen(canStart) ==
    \E werr \in BOOLEAN :
        /\ canStart
        /\ store' = IF werr THEN store ELSE StorageSet(store, InstallItems)
        /\ pending' = pending \cup
              {Cont("inst_set", FreeId, 0, NULL, NULL, NULL, werr, FALSE)}
        /\ effects' = {"alarms:create"} \cup (IF werr THEN {} ELSE {"set:install"})
        /\ started' = started + 1
        /\ UNCHANGED <<now, listeners, openTabs>>
        /\ observed' = UNDEF
        /\ before' = store
        /\ UNCHANGED reminder

OnInstalled == OnInstalledWhen(CanStart)

\* callback of the write in the onInstalled listener
InstallWritten ==
    \E c \in pending :
        /\ c.k = "inst_set"
        /\ pending' = pending \ {c}
        /\ effects' = {}
        /\ UNCHANGED <<store, now, listeners, openTabs, started>>
        /\ observed' = UNDEF
        /\ before' = store
        /\ UNCHANGED reminder

(* ------------------------------ alarms -------------------------------- *)

AlarmNames == {"forceStreakSync", "firstStreakReminder", "secondStreakReminder",
               "firstStreakFailsafe", "secondStreakFailsafe"}

ReminderNames == {"firstStreakReminder", "secondStreakReminder"}

FailsafeNames == {"firstStreakFailsafe", "secondStreakFailsafe"}

\* forceSyncStreakFromDailyDev(): issues the read of lastVisit
forceSyncStreakFromDailyDev(id) ==
    {Cont("sync_get", id, 0, NULL, StorageGet(store, "lastVisit"), NULL, FALSE, FALSE)}

\* the continuation of the read the onAlarm listener issues for a reminder
\* or failsafe alarm
AlarmRead(id, name) ==
    {Cont(name, id, 0, NULL, StorageGet(store, "lastVisit"), NULL, FALSE, FALSE)}

\* chrome.alarms.onAlarm fires for one of the alarms in names
AlarmFiredWhen(canStart, names) ==
    \E name \in names :
        /\ canStart
        /\ pending' = pending \cup
              (IF name = "forceStreakSync"
               THEN forceSyncStreakFromDailyDev(FreeId)
               ELSE AlarmRead(FreeId, name))
        /\ started' = started + 1
        /\ effects' = {}
        /\ UNCHANGED <<store, now, listeners, openTabs>>
        /\ observed' = UNDEF
        /\ before' = store
        /\ UNCHANGED reminder

\* checkStreakAndNotify(isUrgent): issues the read of streak and lastVisit
checkStreakAndNotify(id, isUrgent) ==
    {Cont("notify_get", id, 0, NULL, StorageGet(store, "lastVisit"),
          StorageGet(store, "streak"), FALSE, isUrgent)}

\* executeStreakFailsafe(): issues the read of streak and lastVisit
executeStreakFailsafe(id) ==
    {Cont("fs_get", id, 0, NULL, StorageGet(store, "lastVisit"),
          StorageGet(store, "streak"), FALSE, FALSE)}

\* callback of the read the onAlarm listener issued for a reminder or
\* failsafe alarm
AlarmChecked ==
    \E c \in pending, rerr \in BOOLEAN :
        /\ c.k \in ReminderNames \cup FailsafeNames
        /\ IF rerr
           THEN /\ pending' = pending \ {c}
                /\ effects' = {"log:storageError"}
           ELSE IF NotVisitedToday(c.lv, now)
           THEN /\ pending' = (pending \ {c}) \cup
                       (IF c.k \in ReminderNames
                        THEN checkStreakAndNotify(c.id, c.k = "secondStreakReminder")
                        ELSE executeStreakFailsafe(c.id))
                /\ effects' = {}
           ELSE /\ pending' = pending \ {c}
                /\ effects' = {"log:noActionNeeded", c.k}
        /\ UNCHANGED <<store, now, listeners, openTabs, started>>
        /\ observed' = UNDEF
        /\ before' = store
        /\ UNCHANGED reminder

\* variant of failsafeTimeString with the two failsafe times exchanged
failsafeTimeStringSwapped(isUrgent) ==
    IF isUrgent
    THEN formatTime(FIRST_FAILSAFE_HOUR, FIRST_FAILSAFE_MINUTE)
    ELSE formatTime(SECOND_FAILSAFE_HOUR, SECOND_FAILSAFE_MINUTE)

\* the failsafe time checkStreakAndNotify puts into the notification's message
failsafeTimeString(isUrgent) ==
    IF isUrgent
    THEN formatTime(SECOND_FAILSAFE_HOUR, SECOND_FAILSAFE_MINUTE)
    ELSE formatTime(FIRST_FAILSAFE_HOUR, FIRST_FAILSAFE_MINUTE)

\* variant of ReminderEffects in which the urgent reminder also opens daily.dev
ReminderEffectsOpensTab(isUrgent) ==
    IF isUrgent THEN {"notify:urgentReminder", "tab:create"} ELSE {"notify:reminder"}

\* what checkStreakAndNotify does when the streak is not maintained: one
\* chrome.notifications.create
ReminderEffects(isUrgent) ==
    IF isUrgent THEN {"notify:urgentReminder"} ELSE {"notify:reminder"}

\* callback of the read in checkStreakAndNotify
NotifyRead ==
    \E c \in pending, rerr \in BOOLEAN, nerr \in BOOLEAN :
        /\ c.k = "notify_get"
        /\ IF rerr
           THEN /\ pending' = pending \ {c}
                /\ effects' = {"log:storageError"}
           ELSE IF NotVisitedToday(c.lv, now)
           THEN /\ pending' = (pending \ {c}) \cup
                       {Cont("notify_cb", c.id, 0, failsafeTimeString(c.flag), NULL, NULL,
                             nerr, c.flag)}
                /\ effects' = ReminderEffects(c.flag)
           ELSE /\ pending' = pending \ {c}
                /\ effects' = {"log:noNotificationNeeded"}
        /\ UNCHANGED <<store, now, listeners, openTabs, started>>
        /\ observed' = UNDEF
        /\ before' = store
        /\ UNCHANGED reminder

\* callback of chrome.notifications.create in checkStreakAndNotify
NotifyCreated ==
    \E c \in pending :
        /\ c.k = "notify_cb"
        /\ pending' = pending \ {c}
        /\ effects' = {}
        /\ UNCHANGED <<store, now, listeners, openTabs, started>>
        /\ observed' = UNDEF
        /\ before' = store
        /\ UNCHANGED reminder

(* ------------------------------ failsafe ------------------------------ *)

\* callback of the read in executeStreakFailsafe
FailsafeRead ==
    \E c \in pending, rerr \in BOOLEAN :
        /\ c.k = "fs_get"
        /\ IF rerr
           THEN /\ pending' = pending \ {c}
                /\ effects' = {"log:storageError"}
           ELSE IF NotVisitedToday(c.lv, now)
           THEN /\ pending' = (pending \ {c}) \cup
                       {Cont("fs_create", c.id, 0, NULL, NULL, NULL, FALSE, FALSE)}
                /\ effects' = {"tab:create"}
           ELSE /\ pending' = pending \ {c}
                /\ effects' = {"log:alreadyMaintained"}
        /\ UNCHANGED <<store, now, listeners, openTabs, started>>
        /\ observed' = UNDEF
        /\ before' = store
        /\ UNCHANGED reminder

\* callback of chrome.tabs.create in executeStreakFailsafe
FailsafeTabCreated ==
    \E c \in pending, cerr \in BOOLEAN :
        /\ c.k = "fs_create"
        /\ IF cerr
           THEN /\ pending' = pending \ {c}
                /\ UNCHANGED <<listeners, openTabs>>
           ELSE /\ openTabs' = openTabs \cup {NewTab}
                /\ listeners' = listeners \cup
                       {Listener("failsafeLoad", c.id, NewTab, FALSE, NULL)}
                /\ pending' = (pending \ {c}) \cup
                       {Cont("fs_timeout", c.id, NewTab, NULL, NULL, NULL, FALSE, FALSE)}
        /\ effects' = {}
        /\ UNCHANGED <<store, now, started>>
        /\ observed' = UNDEF
        /\ before' = store
        /\ UNCHANGED reminder

\* the 1 s timer of the failsafe: clickArticleAndUpdateStreak(tab.id)
FailsafeDelay ==
    \E c \in pending :
        /\ c.k = "fs_delay"
        /\ pending' = (pending \ {c}) \cup clickArticleAndUpdateStreak(c.id, c.tab)
        /\ effects' = {"inject:click"}
        /\ UNCHANGED <<store, now, listeners, openTabs, started>>
        /\ observed' = UNDEF
        /\ before' = store
        /\ UNCHANGED reminder

\* variant of FailsafeTimeout that leaves the listener registered
FailsafeTimeoutKeepsListener ==
    \E c \in pending :
        /\ c.k = "fs_timeout"
        /\ pending' = pending \ {c}
        /\ effects' = {}
        /\ UNCHANGED <<store, now, listeners, openTabs, started>>
        /\ observed' = UNDEF
        /\ before' = store
        /\ UNCHANGED reminder

\* the 30 s timer of the failsafe removes tabLoadListener
FailsafeTimeout ==
    \E c \in pending :
        /\ c.k = "fs_timeout"
        /\ pending' = pending \ {c}
        /\ listeners' = listeners \ {Listener("failsafeLoad", c.id, c.tab, FALSE, NULL)}
        /\ effects' = {}
        /\ UNCHANGED <<store, now, openTabs, started>>
        /\ observed' = UNDEF
        /\ before' = store
        /\ UNCHANGED reminder

(* ------------------------- scheduled force sync ----------------------- *)

\* variant of SyncRead that skips the sync when the streak is maintained
SyncReadOnlyWhenNotVisited ==
    \E c \in pending, rerr \in BOOLEAN :
        /\ c.k = "sync_get"
        /\ IF rerr
           THEN /\ pending' = pending \ {c}
                /\ effects' = {"log:storageError"}
           ELSE IF NotVisitedToday(c.lv, now)
           THEN /\ pending' = (pending \ {c}) \cup
                       {Cont("sync_create", c.id, 0, NULL, toDateString(now),
                             NULL, FALSE, c.lv = toDateString(now))}
                /\ effects' = {"tab:create"}
           ELSE /\ pending' = pending \ {c}
                /\ effects' = {}
        /\ UNCHANGED <<store, now, listeners, openTabs, started>>
        /\ observed' = UNDEF
        /\ before' = store
        /\ UNCHANGED reminder

\* callback of the read in forceSyncStreakFromDailyDev: opens the tab
\* (lv: today, flag: alreadyMaintained, both captured by the later callbacks)
SyncRead ==
    \E c \in pending, rerr \in BOOLEAN :
        /\ c.k = "sync_get"
        /\ IF rerr
           THEN /\ pending' = pending \ {c}
                /\ effects' = {"log:storageError"}
           ELSE /\ pending' = (pending \ {c}) \cup
                       {Cont("sync_create", c.id, 0, NULL, toDateString(now),
                             NULL, FALSE, c.lv = toDateString(now))}
                /\ effects' = {"tab:create"}
        /\ UNCHANGED <<store, now, listeners, openTabs, started>>
        /\ observed' = UNDEF
        /\ before' = store
        /\ UNCHANGED reminder

\* callback of chrome.tabs.create in forceSyncStreakFromDailyDev
SyncTabCreated ==
    \E c \in pending, cerr \in BOOLEAN :
        /\ c.k = "sync_create"
        /\ IF cerr
           THEN /\ pending' = pending \ {c}
                /\ UNCHANGED <<listeners, openTabs>>
           ELSE /\ openTabs' = openTabs \cup {NewTab}
                /\ listeners' = listeners \cup {Listener("syncLoad", c.id, NewTab, c.flag, c.lv)}
                /\ pending' = (pending \ {c}) \cup
                       {Cont("sync_timeout", c.id, NewTab, NULL, c.lv, NULL, FALSE, c.flag)}
        /\ effects' = {}
        /\ UNCHANGED <<store, now, started>>
        /\ observed' = UNDEF
        /\ before' = store
        /\ UNCHANGED reminder

\* the 3 s timer of the force sync: injects extractStreakCountFromPage
\* (err: the tab is already closed, so the injection fails)
SyncDelay ==
    \E c \in pending :
        /\ c.k = "sync_delay"
        /\ pending' = (pending \ {c}) \cup
              {Cont("sync_extract", c.id, c.tab, NULL, c.lv, NULL, c.tab \notin openTabs, c.flag)}
        /\ effects' = {"inject:extract"}
        /\ UNCHANGED <<store, now, listeners, openTabs, started>>
        /\ observed' = UNDEF
        /\ before' = store
        /\ UNCHANGED reminder

\* variant of ForceSyncItems that also marks the day as visited
ForceSyncItemsMarksToday(streakCount, instant) ==
    [streak |-> streakCount, lastVisit |-> toDateString(instant),
     streakMaintainedToday |-> Bool(TRUE), syncedWithDailyDev |-> Bool(TRUE),
     lastSyncTime |-> Num(instant)]

\* the items the force sync writes
ForceSyncItems(streakCount, instant) ==
    [streak |-> streakCount, syncedWithDailyDev |-> Bool(TRUE),
     lastSyncTime |-> Num(instant)]

\* callback of executeScript(extractStreakCountFromPage) in the force sync
SyncExtractResult ==
    \E c \in pending, outcome \in {"error", "empty", "result"},
       result \in ObservedCounts, werr \in BOOLEAN :
        /\ c.k = "sync_extract"
        /\ c.err => outcome = "error"
        /\ openTabs' = openTabs \ {c.tab}
        /\ IF outcome = "result" /\ ExtractedCountUsable(result)
           THEN /\ store' = IF werr THEN store
                            ELSE StorageSet(store, ForceSyncItems(result, now))
                /\ pending' = (pending \ {c}) \cup
                       {Cont("sync_set", c.id, c.tab, result, c.lv, NULL, werr, c.flag)}
           ELSE /\ pending' = pending \ {c}
                /\ UNCHANGED store
        /\ effects' = {"tab:remove"} \cup
              (IF outcome = "error" THEN {"log:scriptError"}
               ELSE IF ~(outcome = "result" /\ ExtractedCountUsable(result))
               THEN {"log:extractFailed"}
               ELSE IF ~werr THEN {"set:forceSync"} ELSE {})
        /\ UNCHANGED <<now, listeners, started>>
        /\ observed' = IF outcome = "result" THEN result ELSE UNDEF
        /\ before' = store
        /\ UNCHANGED reminder

\* callback of the write in the force sync: the second write when the streak
\* was already maintained, and the notification
SyncWritten ==
    \E c \in pending, werr \in BOOLEAN :
        /\ c.k = "sync_set"
        /\ pending' = pending \ {c}
        /\ IF ~c.err
           THEN /\ store' = IF c.flag /\ ~werr
                            THEN StorageSet(store, [lastVisit |-> c.lv,
                                                    streakMaintainedToday |-> Bool(TRUE)])
                            ELSE store
                /\ effects' = {"notify:synced"} \cup
                       (IF c.flag /\ ~werr THEN {"set:lastVisit"} ELSE {})
           ELSE /\ UNCHANGED store
                /\ effects' = {}
        /\ UNCHANGED <<now, listeners, openTabs, started>>
        /\ observed' = UNDEF
        /\ before' = store
        /\ UNCHANGED reminder

\* variant of SyncTimeout that removes the listener and leaves the tab open
SyncTimeoutKeepsTab ==
    \E c \in pending :
        /\ c.k = "sync_timeout"
        /\ pending' = pending \ {c}
        /\ listeners' = listeners \ {Listener("syncLoad", c.id, c.tab, c.flag, c.lv)}
        /\ effects' = {}
        /\ UNCHANGED <<store, now, openTabs, started>>
        /\ observed' = UNDEF
        /\ before' = store
        /\ UNCHANGED reminder

\* the 30 s timer of the force sync
SyncTimeout ==
    \E c \in pending :
        /\ c.k = "sync_timeout"
        /\ pending' = pending \ {c}
        /\ listeners' = listeners \ {Listener("syncLoad", c.id, c.tab, c.flag, c.lv)}
        /\ openTabs' = openTabs \ {c.tab}
        /\ effects' = {"tab:remove"}
        /\ UNCHANGED <<store, now, started>>
        /\ observed' = UNDEF
        /\ before' = store
        /\ UNCHANGED reminder

(* ----------------------------- manual sync ---------------------------- *)

\* chrome.runtime.onMessage with action "forceSyncStreak" (sent by the popup)
MessageReceivedWhen(canStart) ==
    /\ canStart
    /\ pending' = pending \cup
          {Cont("manual_create", FreeId, 0, NULL, NULL, NULL, FALSE, FALSE)}
    /\ started' = started + 1
    /\ effects' = {"tab:create"}
    /\ UNCHANGED <<store, now, listeners, openTabs>>
    /\ observed' = UNDEF
    /\ before' = store
    /\ UNCHANGED reminder

\* callback of chrome.tabs.create in the onMessage listener
ManualTabCreated ==
    \E c \in pending, cerr \in BOOLEAN :
        /\ c.k = "manual_create"
        /\ IF cerr
           THEN /\ pending' = pending \ {c}
                /\ effects' = {"respond:failure"}
                /\ UNCHANGED <<listeners, openTabs>>
           ELSE /\ openTabs' = openTabs \cup {NewTab}
                /\ listeners' = listeners \cup {Listener("manualLoad", c.id, NewTab, FALSE, NULL)}
                /\ pending' = (pending \ {c}) \cup
                       {Cont("manual_timeout", c.id, NewTab, NULL, NULL, NULL, FALSE, FALSE)}
                /\ effects' = {}
        /\ UNCHANGED <<store, now, started>>
        /\ observed' = UNDEF
        /\ before' = store
        /\ UNCHANGED reminder

\* the 3 s timer of the manual sync: injects extractStreakCountFromPage
ManualDelay ==
    \E c \in pending :
        /\ c.k = "manual_delay"
        /\ pending' = (pending \ {c}) \cup
              {Cont("manual_extract", c.id, c.tab, NULL, NULL, NULL, c.tab \notin openTabs, FALSE)}
        /\ effects' = {"inject:extract"}
        /\ UNCHANGED <<store, now, listeners, openTabs, started>>
        /\ observed' = UNDEF
        /\ before' = store
        /\ UNCHANGED reminder

\* the items the manual sync writes
ManualSyncItems(streakCount, instant) ==
    [streak |-> streakCount, syncedWithDailyDev |-> Bool(TRUE),
     lastSyncTime |-> Num(instant)]

\* callback of executeScript(extractStreakCountFromPage) in the manual sync
ManualExtractResult ==
    \E c \in pending, outcome \in {"error", "empty", "result"},
       result \in ObservedCounts, werr \in BOOLEAN :
        /\ c.k = "manual_extract"
        /\ c.err => outcome = "error"
        /\ openTabs' = openTabs \ {c.tab}
        /\ IF outcome = "result" /\ ExtractedCountUsable(result)
           THEN /\ store' = IF werr THEN store
                            ELSE StorageSet(store, ManualSyncItems(result, now))
                /\ pending' = (pending \ {c}) \cup
                       {Cont("manual_set", c.id, c.tab, result, NULL, NULL, werr, FALSE)}
                /\ effects' = {"tab:remove"} \cup (IF werr THEN {} ELSE {"set:manualSync"})
           ELSE /\ pending' = pending \ {c}
                /\ effects' = {"tab:remove", "respond:failure"}
                /\ UNCHANGED store
        /\ UNCHANGED <<now, listeners, started>>
        /\ observed' = IF outcome = "result" THEN result ELSE UNDEF
        /\ before' = store
        /\ UNCHANGED reminder

\* callback of the write in the manual sync
ManualWritten ==
    \E c \in pending :
        /\ c.k = "manual_set"
        /\ pending' = pending \ {c}
        /\ effects' = IF c.err THEN {"respond:failure"} ELSE {"respond:success"}
        /\ UNCHANGED <<store, now, listeners, openTabs, started>>
        /\ observed' = UNDEF
        /\ before' = store
        /\ UNCHANGED reminder

\* the 30 s timer of the manual sync
ManualTimeout ==
    \E c \in pending :
        /\ c.k = "manual_timeout"
        /\ pending' = pending \ {c}
        /\ listeners' = listeners \ {Listener("manualLoad", c.id, c.tab, FALSE, NULL)}
        /\ openTabs' = openTabs \ {c.tab}
        /\ effects' = {"tab:remove", "respond:timeout"}
        /\ UNCHANGED <<store, now, started>>
        /\ observed' = UNDEF
        /\ before' = store
        /\ UNCHANGED reminder

Next ==
    \/ Tick
    \/ TabUpdated
    \/ PageLoadRead
    \/ ClickResult
    \/ ArticleTimeout
    \/ ArticleExtractResult
    \/ SyncedRead
    \/ SyncedWritten
    \/ InternalRead
    \/ InternalWritten
    \/ OnInstalled
    \/ InstallWritten

Spec == Init /\ [][Next]_vars

\* one operation at a time: an event that starts an operation is handled
\* only when no callback and no listener of an earlier one is left
TabUpdatedAlone == TabUpdatedWhen(CanStartAlone)

OnInstalledAlone == OnInstalledWhen(CanStartAlone)

NextAlone ==
    \/ Tick
    \/ TabUpdatedAlone
    \/ PageLoadRead
    \/ ClickResult
    \/ ArticleTimeout
    \/ ArticleExtractResult
    \/ SyncedRead
    \/ SyncedWritten
    \/ InternalRead
    \/ InternalWritten
    \/ OnInstalledAlone
    \/ InstallWritten

SpecAlone == Init /\ [][NextAlone]_vars

(* ------------- the whole background script: alarms and syncs ---------- *)

AlarmFiredAlone == AlarmFiredWhen(CanStartAlone, AlarmNames)

MessageReceivedAlone == MessageReceivedWhen(CanStartAlone)

\* one alarm, message, install or user page load at a time
NextFullAlone ==
    \/ NextAlone
    \/ AlarmFiredAlone
    \/ AlarmChecked
    \/ NotifyRead
    \/ NotifyCreated
    \/ FailsafeRead
    \/ FailsafeTabCreated
    \/ FailsafeDelay
    \/ FailsafeTimeout
    \/ SyncRead
    \/ SyncTabCreated
    \/ SyncDelay
    \/ SyncExtractResult
    \/ SyncWritten
    \/ SyncTimeout
    \/ MessageReceivedAlone
    \/ ManualTabCreated
    \/ ManualDelay
    \/ ManualExtractResult
    \/ ManualWritten
    \/ ManualTimeout

SpecFullAlone == Init /\ [][NextFullAlone]_vars

\* the operations of NextFullAlone within one instant of the clock (the
\* timers run for 15 s or 30 s, an instant lasts half a day)
NextTimers ==
    \/ TabUpdatedAlone
    \/ PageLoadRead
    \/ ClickResult
    \/ ArticleTimeout
    \/ ArticleExtractResult
    \/ SyncedRead
    \/ SyncedWritten
    \/ InternalRead
    \/ InternalWritten
    \/ OnInstalledAlone
    \/ InstallWritten
    \/ AlarmFiredAlone
    \/ AlarmChecked
    \/ NotifyRead
    \/ NotifyCreated
    \/ FailsafeRead
    \/ FailsafeTabCreated
    \/ FailsafeDelay
    \/ FailsafeTimeout
    \/ SyncRead
    \/ SyncTabCreated
    \/ SyncDelay
    \/ SyncExtractResult
    \/ SyncWritten
    \/ SyncTimeout
    \/ MessageReceivedAlone
    \/ ManualTabCreated
    \/ ManualDelay
    \/ ManualExtractResult
    \/ ManualWritten
    \/ ManualTimeout

\* a timer that setTimeout has set and that has not run yet is eventually
\* run by the event loop
SpecTimers ==
    /\ Init
    /\ [][NextTimers]_vars
    /\ WF_vars(ArticleTimeout)
    /\ WF_vars(FailsafeTimeout)
    /\ WF_vars(SyncTimeout)
    /\ WF_vars(ManualTimeout)

\* every callback that has been scheduled (storage, scripting, tabs and
\* notifications callbacks, timers) is eventually run by the event loop;
\* nothing is assumed of the events that come from outside (page loads,
\* alarms, messages, installs)
SpecCallbacks ==
    /\ Init
    /\ [][NextTimers]_vars
    /\ WF_vars(PageLoadRead) /\ WF_vars(ClickResult)
    /\ WF_vars(ArticleTimeout) /\ WF_vars(ArticleExtractResult)
    /\ WF_vars(SyncedRead) /\ WF_vars(SyncedWritten)
    /\ WF_vars(InternalRead) /\ WF_vars(InternalWritten)
    /\ WF_vars(InstallWritten)
    /\ WF_vars(AlarmChecked) /\ WF_vars(NotifyRead) /\ WF_vars(NotifyCreated)
    /\ WF_vars(FailsafeRead) /\ WF_vars(FailsafeTabCreated)
    /\ WF_vars(FailsafeDelay) /\ WF_vars(FailsafeTimeout)
    /\ WF_vars(SyncRead) /\ WF_vars(SyncTabCreated) /\ WF_vars(SyncDelay)
    /\ WF_vars(SyncExtractResult) /\ WF_vars(SyncWritten) /\ WF_vars(SyncTimeout)
    /\ WF_vars(ManualTabCreated) /\ WF_vars(ManualDelay)
    /\ WF_vars(ManualExtractResult) /\ WF_vars(ManualWritten) /\ WF_vars(ManualTimeout)

(* ------------- reminders racing with streak updates ------------------ *)

ReminderFired == AlarmFiredWhen(CanStart, ReminderNames)

\* user page loads, installs and reminder alarms, in any interleaving
NextReminders ==
    \/ Next
    \/ ReminderFired
    \/ AlarmChecked
    \/ NotifyRead
    \/ NotifyCreated

SpecReminders == Init /\ [][NextReminders]_vars

(* ------------------ syncs racing with streak updates ------------------ *)

SyncFired == AlarmFiredWhen(CanStart, {"forceStreakSync"})

MessageReceived == MessageReceivedWhen(CanStart)

\* user page loads, installs, force sync alarms and manual syncs, in any
\* interleaving
NextSyncs ==
    \/ Next
    \/ SyncFired
    \/ SyncRead
    \/ SyncTabCreated
    \/ SyncDelay
    \/ SyncExtractResult
    \/ SyncWritten
    \/ SyncTimeout
    \/ MessageReceived
    \/ ManualTabCreated
    \/ ManualDelay
    \/ ManualExtractResult
    \/ ManualWritten
    \/ ManualTimeout

SpecSyncs == Init /\ [][NextSyncs]_vars

(* ------------- failsafes racing with streak updates ------------------ *)

FailsafeFired == AlarmFiredWhen(CanStart, FailsafeNames)

\* user page loads, installs and failsafe alarms, in any interleaving; the
\* load of the tab a failsafe opened is also seen by the global listener
NextFailsafes ==
    \/ Next
    \/ FailsafeFired
    \/ AlarmChecked
    \/ FailsafeRead
    \/ FailsafeTabCreated
    \/ FailsafeDelay
    \/ FailsafeTimeout

SpecFailsafes == Init /\ [][NextFailsafes]_vars

(* ------------- the click the injected function schedules ------------- *)

\* user page loads, one at a time, with the 500 ms timer that
\* clickFirstArticle leaves in the page; the timer and the callbacks of the
\* background script run in any order
NextClick ==
    \/ Tick
    \/ TabUpdatedAlone
    \/ PageLoadRead
    \/ ClickResultTimed
    \/ LinkClicked
    \/ ArticleTimeout
    \/ ArticleExtractResult
    \/ SyncedRead
    \/ SyncedWritten
    \/ InternalRead
    \/ InternalWritten

SpecClick == Init /\ [][NextClick]_vars

(* ------------- the load of the tab a failsafe opened ------------------ *)

\* the tab a failsafe opened completes its load of https://app.daily.dev/
\* (chrome.tabs.create({ url: "https://app.daily.dev/" })): the failsafe's
\* tabLoadListener and the global listener both see the event
FailsafeTabLoaded ==
    /\ TabUpdatedWhen(CanStart)
    /\ \E l \in listeners \ listeners' : l.k = "failsafeLoad"
    /\ started' = started + 1

\* failsafe alarms and the loads of the tabs they open, nothing else
NextFailsafeLoad ==
    \/ Tick
    \/ FailsafeFired
    \/ AlarmChecked
    \/ FailsafeRead
    \/ FailsafeTabCreated
    \/ FailsafeTabLoaded
    \/ FailsafeDelay
    \/ FailsafeTimeout
    \/ PageLoadRead
    \/ ClickResult
    \/ ArticleTimeout
    \/ SyncedRead
    \/ SyncedWritten
    \/ InternalRead
    \/ InternalWritten

SpecFailsafeLoad == Init /\ [][NextFailsafeLoad]_vars

(* ----------------- getNextReminderTime on its own --------------------- *)

\* the time of day (ms after midnight) of hour:minute:00.000
TimeOfDay(hour, minute) == ((hour * 60) + minute) * 60000

\* the times of day at which the clock is read for an alarm at hour:minute:
\* midnight, the last millisecond of the day, and the milliseconds around
\* hour:minute:00.000
ClockReadings(hour, minute) ==
    {0, MsPerDay - 1} \cup
    {t \in (TimeOfDay(hour, minute) - MaxSkew)..(TimeOfDay(hour, minute) + MaxSkew) :
        t >= 0 /\ t < MsPerDay}

InitReminder ==
    /\ store = InstallItems
    /\ now = 0
    /\ pending = {}
    /\ listeners = {}
    /\ openTabs = {}
    /\ effects = {}
    /\ observed = UNDEF
    /\ before = InstallItems
    /\ started = 0
    /\ \E hour \in 0..23, minute \in 0..59 :
          \E t \in ClockReadings(hour, minute), lag \in 0..MaxSkew :
              reminder = [name |-> "", hour |-> hour, minute |-> minute,
                          now |-> MsPerDay + t, lag |-> lag, when |-> -1]

\* setupAlarms: chrome.alarms.create(name, {when: getNextReminderTime(hour, minute)})
AlarmCreated ==
    /\ reminder.when = -1
    /\ reminder' = [reminder EXCEPT !.when =
           getNextReminderTime(reminder.hour, reminder.minute, reminder.now,
                               reminder.now + reminder.lag)]
    /\ UNCHANGED <<store, now, pending, listeners, openTabs, effects, observed,
                   before, started>>

NextReminder == AlarmCreated

SpecReminder == InitReminder /\ [][NextReminder]_vars

(* ------------- concurrent runs of updateStreak on one day ------------- *)

\* the stores updateStreak finds: the installed one, or one an earlier run
\* of updateStreak wrote on the current or an earlier day
InitInternal ==
    /\ now \in Instants
    /\ \E n \in 1..(MaxCount + 1), d \in 0..MaxDay :
          /\ d <= now \div 2
          /\ store \in {InstallItems,
                        StorageSet(InstallItems,
                                   [streak |-> Num(n), lastVisit |-> DateString(d),
                                    streakMaintainedToday |-> Bool(TRUE),
                                    syncedWithDailyDev |-> Bool(FALSE)])}
    /\ pending = {}
    /\ listeners = {}
    /\ openTabs = {}
    /\ effects = {}
    /\ observed = UNDEF
    /\ before = store
    /\ started = 0
    /\ reminder = NoCall

\* the clock advances within the calendar day
TickSameDay == toDateString(now + 1) = toDateString(now) /\ Tick

\* a call of updateStreak() from a click, article-load or failsafe callback
UpdateStreakCalled ==
    /\ CanStart
    /\ pending' = pending \cup updateStreak(FreeId)
    /\ started' = started + 1
    /\ effects' = {}
    /\ UNCHANGED <<store, now, listeners, openTabs>>
    /\ observed' = UNDEF
    /\ before' = store
    /\ UNCHANGED reminder

NextInternal ==
    \/ TickSameDay
    \/ UpdateStreakCalled
    \/ InternalRead
    \/ InternalWritten

SpecInternal == InitInternal /\ [][NextInternal]_vars

(* ------------- a force sync that runs across midnight ---------------- *)

\* the first day, with the store as installed or as an update of the streak
\* left it earlier on that day
InitVisited ==
    /\ now = 0
    /\ \E n \in 1..(MaxCount + 1) :
          store \in {InstallItems,
                    StorageSet(InstallItems,
                               [streak |-> Num(n), lastVisit |-> toDateString(0),
                                streakMaintainedToday |-> Bool(TRUE)])}
    /\ pending = {}
    /\ listeners = {}
    /\ openTabs = {}
    /\ effects = {}
    /\ observed = UNDEF
    /\ before = store
    /\ started = 0
    /\ reminder = NoCall

\* force sync alarms and user page loads, in any interleaving, while the
\* clock goes on
NextMidnight ==
    \/ Tick
    \/ SyncFired
    \/ SyncRead
    \/ SyncTabCreated
    \/ SyncDelay
    \/ SyncExtractResult
    \/ SyncWritten
    \/ SyncTimeout
    \/ TabUpdated
    \/ PageLoadRead
    \/ ClickResult
    \/ ArticleTimeout
    \/ ArticleExtractResult
    \/ SyncedRead
    \/ SyncedWritten
    \/ InternalRead
    \/ InternalWritten

SpecMidnight == InitVisited /\ [][NextMidnight]_vars

(* --------------------- the alarms setupAlarms creates ----------------- *)

\* the times of day at which setupAlarms may run: midnight, the last
\* millisecond of the day, and the milliseconds around each alarm's time
SetupReadings ==
    UNION {ClockReadings(AlarmTime(name).hour, AlarmTime(name).minute) : name \in AlarmNames}

InitSetup ==
    /\ store = InstallItems
    /\ now = 0
    /\ pending = {}
    /\ listeners = {}
    /\ openTabs = {}
    /\ effects = {}
    /\ observed = UNDEF
    /\ before = InstallItems
    /\ started = 0
    /\ \E name \in AlarmNames, t \in SetupReadings, lag \in 0..MaxSkew :
          reminder = [name |-> name, hour |-> AlarmTime(name).hour,
                      minute |-> AlarmTime(name).minute, now |-> MsPerDay + t,
                      lag |-> lag, when |-> -1]

NextSetup == AlarmCreated

SpecSetup == InitSetup /\ [][NextSetup]_vars

(* ------------------------------ properties ---------------------------- *)

\* the step runs the callback c and its storage write succeeds, leaving the
\* write's callback of kind k scheduled
Wrote(c, k) ==
    /\ c \notin pending'
    /\ \E d \in pending' \ pending : d.k = k /\ d.id = c.id /\ ~d.err

Today == toDateString(now)

\* C1: a run of updateStreakWithCount(v) whose storage operations succeed
\* leaves streak = v, whatever the streak was before (also when v is lower),
\* syncedWithDailyDev = true and lastSyncTime = the instant of the write.
C1_SyncedWriteStoresCount ==
    [][\A c \in pending :
          (c.k = "usc_get" /\ c.cnt.t = "num" /\ Wrote(c, "usc_set"))
          => /\ store'.streak = c.cnt
             /\ store'.syncedWithDailyDev = Bool(TRUE)
             /\ store'.lastSyncTime = Num(now)]_vars

\* updateStreakWithCount has just overwritten a higher streak with a lower count
C1_Witness ==
    /\ "set:synced" \in effects
    /\ before.streak.t = "num" /\ store.streak.t = "num"
    /\ store.streak.v < before.streak.v
    /\ store.syncedWithDailyDev = Bool(TRUE)
    /\ store.lastSyncTime = Num(now)

\* C2: a run of updateStreak() that read lastVisit = yesterday and whose
\* storage operations succeed leaves streak = the streak it read + 1,
\* lastVisit = today, streakMaintainedToday = true, syncedWithDailyDev = false.
C2_InternalContinues ==
    [][\A c \in pending :
          (c.k = "us_get" /\ c.lv = DateString((now \div 2) - 1) /\ Wrote(c, "us_set"))
          => /\ store'.streak = (IF c.st.t = "num" THEN Num(c.st.v + 1) ELSE c.st)
             /\ store'.lastVisit = Today
             /\ store'.streakMaintainedToday = Bool(TRUE)
             /\ store'.syncedWithDailyDev = Bool(FALSE)]_vars

\* updateStreak has just continued a streak of at least one day
C2_Witness ==
    /\ "set:internal" \in effects
    /\ before.lastVisit = DateString((now \div 2) - 1)
    /\ before.streak.t = "num" /\ before.streak.v >= 1
    /\ store.streak = Num(before.streak.v + 1)
    /\ store.lastVisit = Today
    /\ store.syncedWithDailyDev = Bool(FALSE)

\* C3: a run of updateStreak() that read lastVisit = null, or a day before
\* yesterday, leaves streak = 1 and lastVisit = today.
C3_InternalRestarts ==
    [][\A c \in pending :
          (/\ c.k = "us_get"
           /\ c.lv = NULL \/ (c.lv.t = "date" /\ c.lv.v < (now \div 2) - 1)
           /\ Wrote(c, "us_set"))
          => /\ store'.streak = Num(1)
             /\ store'.lastVisit = Today]_vars

\* updateStreak has just reset a streak that was not 1 after a gap of more
\* than one day
C3_Witness ==
    /\ "set:internal" \in effects
    /\ before.lastVisit.t = "date" /\ before.lastVisit.v < (now \div 2) - 1
    /\ before.streak # Num(1)
    /\ store.streak = Num(1)
    /\ store.lastVisit = Today

\* C4: when the stored lastVisit is today, a run of updateStreak or of
\* updateStreakWithCount leaves streak, lastVisit and syncedWithDailyDev as
\* they were.
C4_NoOpWhenVisitedToday ==
    [][\A c \in pending :
          (/\ c.k \in {"usc_get", "us_get"}
           /\ c \notin pending'
           /\ c.lv = Today
           /\ store.lastVisit = Today)
          => /\ store'.streak = store.streak
             /\ store'.lastVisit = store.lastVisit
             /\ store'.syncedWithDailyDev = store.syncedWithDailyDev]_vars

\* C5: once lastVisit is today, no step within the same calendar day lowers
\* streak or makes the day count as not maintained.
C5_MaintainedIsMonotonic ==
    [][(store.lastVisit = Today /\ toDateString(now') = Today)
          => /\ ~Lower(store'.streak, store.streak)
             /\ store'.lastVisit = Today
             /\ store'.streakMaintainedToday = store.streakMaintainedToday]_vars

\* C6: streakMaintainedToday is true exactly when lastVisit is the current day.
C6_FlagIffVisitedToday ==
    (store.streakMaintainedToday = Bool(TRUE)) <=> (store.lastVisit = Today)

\* C7: lastSyncTime is non-null only if syncedWithDailyDev is true.
C7_SyncTimeOnlyWhenSynced ==
    store.lastSyncTime # NULL => store.syncedWithDailyDev = Bool(TRUE)

\* C8: the stored streak is a non-negative integer.
C8_StreakIsNatural ==
    store.streak.t = "num" /\ store.streak.v >= 0

\* C9: an observed count that is not a finite non-negative integer is never
\* handed to updateStreakWithCount.
C9_InvalidCountNotWritten ==
    [][(observed' \in {NULL, NAN, INF} \/ (observed'.t = "num" /\ observed'.v < 0))
          => ~ \E d \in pending' \ pending : d.k = "usc_get"]_vars

\* C10: a valid observed count, 0 included, never takes the internal path.
C10_ValidCountGoesExternal ==
    [][(observed'.t = "num" /\ observed'.v >= 0)
          => ~ \E d \in pending' \ pending : d.k = "us_get"]_vars

\* C11: every step that writes an externally observed count to streak
\* (updateStreakWithCount, the scheduled force sync, the manual sync) leaves
\* lastVisit = today and streakMaintainedToday = true.
C11_SyncedWriteMarksToday ==
    [][(effects' \cap {"set:synced", "set:forceSync", "set:manualSync"} # {})
          => /\ store'.lastVisit = Today
             /\ store'.streakMaintainedToday = Bool(TRUE)]_vars

\* C12: a reminder notification (first or urgent) is created only when the
\* stored lastVisit is not the current day at the moment of the creation.
C12_ReminderOnlyWhenNotVisited ==
    [][(effects' \cap {"notify:reminder", "notify:urgentReminder"} # {})
          => store.lastVisit # Today]_vars

\* the callbacks of a reminder alarm's handling
ReminderKinds == ReminderNames \cup {"notify_get", "notify_cb"}

\* C13: a step of the handling of a reminder alarm leaves the five stored
\* fields as they are, opens no tab, injects no script and schedules nothing
\* but the reminder's own callbacks.
C13_ReminderIsReadOnly ==
    [][\A c \in pending :
          (c.k \in ReminderKinds /\ c \notin pending')
          => /\ store' = store
             /\ openTabs' = openTabs
             /\ listeners' = listeners
             /\ effects' \subseteq {"notify:reminder", "notify:urgentReminder",
                                    "log:storageError", "log:noActionNeeded",
                                    "log:noNotificationNeeded"} \cup ReminderNames
             /\ \A d \in pending' \ pending : d.k \in ReminderKinds]_vars

\* the urgent reminder has just been shown and the store is as it was
C13_Witness ==
    /\ "notify:urgentReminder" \in effects
    /\ store = before
    /\ openTabs = {}
    /\ \E c \in pending : c.k = "notify_cb"

\* C14: the failsafe opens a daily.dev tab only if the lastVisit it read is not
\* the current day; when the lastVisit read for a failsafe alarm is today, no
\* tab is opened and nothing stored changes.
C14_FailsafeOnlyWhenNotVisited ==
    [][\A c \in pending :
          (c.k \in FailsafeNames \cup {"fs_get"} /\ c \notin pending')
          => /\ "tab:create" \in effects' => c.k = "fs_get" /\ c.lv # Today
             /\ c.lv = Today => /\ "tab:create" \notin effects'
                                /\ store' = store
                                /\ openTabs' = openTabs
                                /\ listeners' = listeners
                                /\ \A d \in pending' \ pending : d.k = "fs_get"]_vars

\* a failsafe alarm has just been handled with lastVisit = today: nothing opened
C14_Witness ==
    /\ "log:noActionNeeded" \in effects
    /\ effects \cap FailsafeNames # {}
    /\ store.lastVisit = Today
    /\ store = before
    /\ openTabs = {}
    /\ pending = {}

\* C15: unless its storage read fails, the force sync opens the daily.dev tab
\* whatever the stored lastVisit is.
C15_ForceSyncUnconditional ==
    [][\A c \in pending :
          (c.k = "sync_get" /\ c \notin pending' /\ "log:storageError" \notin effects')
          => /\ "tab:create" \in effects'
             /\ \E d \in pending' \ pending : d.k = "sync_create" /\ d.id = c.id]_vars

\* the force sync has just opened its tab although lastVisit is today
C15_Witness ==
    /\ "tab:create" \in effects
    /\ \E d \in pending : d.k = "sync_create" /\ d.flag
    /\ store.lastVisit = Today

\* C16: getNextReminderTime(h, m) returns today at h:m if that instant is
\* strictly after now and tomorrow at h:m otherwise; the result is strictly
\* after now and at most 24 hours after now.
C16_NextTimeStrictlyAfterNow ==
    reminder.when # -1 =>
        LET todayAt == setHours(reminder.now, reminder.hour, reminder.minute) IN
        /\ reminder.when = (IF todayAt > reminder.now THEN todayAt ELSE todayAt + MsPerDay)
        /\ reminder.when > reminder.now
        /\ reminder.when - reminder.now <= MsPerDay

\* C17: right after the install handler's write the store holds streak = 0,
\* lastVisit = null, streakMaintainedToday = false, syncedWithDailyDev = false
\* and lastSyncTime = null.
C17_InstallWritesDefaults ==
    [][("set:install" \in effects')
          => store' = [streak |-> Num(0), lastVisit |-> NULL,
                       streakMaintainedToday |-> Bool(FALSE),
                       syncedWithDailyDev |-> Bool(FALSE), lastSyncTime |-> NULL]]_vars

\* the install handler has just reset a store that held a synced streak
C17_Witness ==
    /\ "set:install" \in effects
    /\ before.lastVisit.t = "date"
    /\ before.syncedWithDailyDev = Bool(TRUE)
    /\ before.lastSyncTime # NULL
    /\ store.streak = Num(0) /\ store.lastVisit = NULL
    /\ store.streakMaintainedToday = Bool(FALSE)
    /\ store.syncedWithDailyDev = Bool(FALSE) /\ store.lastSyncTime = NULL

\* C18: on every reachable store, running updateStreak() twice in succession
\* on the same calendar day leaves the same store as running it once.
C18_InternalIdempotent ==
    \A t \in Instants :
        (t >= now /\ toDateString(t) = Today)
        => updateStreakAlone(updateStreakAlone(store, now), t) = updateStreakAlone(store, now)

\* updateStreak has just continued a streak, and one more run on the same day
\* would leave the store as it is
C18_Witness ==
    /\ "set:internal" \in effects
    /\ before.lastVisit = DateString((now \div 2) - 1)
    /\ store = updateStreakAlone(before, now)
    /\ store # before
    /\ \A t \in Instants :
          (t >= now /\ toDateString(t) = Today) => updateStreakAlone(store, t) = store

\* C19: a handler whose storage read reports an error stops there: the store,
\* the tabs and the listeners stay as they are, no script is injected, no
\* notification is created and no callback is scheduled (no retry).
C19_ReadErrorAborts ==
    [][("log:storageError" \in effects')
          => /\ store' = store
             /\ openTabs' = openTabs
             /\ listeners' = listeners
             /\ effects' = {"log:storageError"}
             /\ pending' \subseteq pending
             /\ pending' # pending]_vars

\* a storage read has just failed and the operation is over
C19_Witness ==
    /\ effects = {"log:storageError"}
    /\ store = before
    /\ pending = {}
    /\ listeners = {}
    /\ started >= 1

ListenerKinds == {"articleLoad", "failsafeLoad", "syncLoad", "manualLoad"}

\* C20: every tab-update listener registered at run time (article-load,
\* failsafe, scheduled sync and manual sync tab-load listeners) is eventually
\* removed, by its load event or by its timer.
C20_ListenersEventuallyRemoved ==
    \A k \in ListenerKinds, id \in OpIds :
        (\E l \in listeners : l.k = k /\ l.id = id)
            ~> ~(\E l \in listeners : l.k = k /\ l.id = id)

\* the failsafe's tab-load listener is registered, its tab has not finished
\* loading and its 30 s timer is set
C20_Witness ==
    \E l \in listeners :
        /\ l.k = "failsafeLoad"
        /\ l.tab \in openTabs
        /\ \E c \in pending : c.k = "fs_timeout" /\ c.id = l.id /\ c.tab = l.tab

\* the continuations of the setTimeout timers that guard a tab-update listener
TimerKinds == {"art_timeout", "fs_timeout", "sync_timeout", "manual_timeout"}

\* C21: the timer of a listener is cancelled when the awaited load event
\* arrives, so a timer callback (listener removal, closing the tab, the
\* "Timeout" response) runs only while its listener is still waiting.
C21_TimerRunsOnlyWhileWaiting ==
    [][\A c \in pending :
          (c.k \in TimerKinds /\ c \notin pending')
          => \E l \in listeners : l.id = c.id /\ l.tab = c.tab]_vars

\* C22: once the 30 s timer of a scheduled or manual force sync has run, the
\* sync is abandoned: its later callbacks write nothing to storage, so a
\* callback of a sync writes only while the timer of that sync is still set.
C22_NoWriteAfterTimeout ==
    [][\A c \in pending :
          (/\ c.k \in {"sync_extract", "sync_set", "manual_extract"}
           /\ c \notin pending'
           /\ effects' \cap {"set:forceSync", "set:lastVisit", "set:manualSync"} # {})
          => \E t \in pending : t.k \in TimerKinds /\ t.id = c.id]_vars

\* C23: clickFirstArticle is injected only when the streak has not been
\* maintained today, also on the failsafe's path: at the step in which the
\* failsafe, 1 s after its tab finished loading, calls
\* clickArticleAndUpdateStreak, the stored lastVisit is not the current day.
C23_FailsafeClickOnlyWhenNotVisited ==
    [][\A c \in pending :
          (c.k = "fs_delay" /\ c \notin pending' /\ "inject:click" \in effects')
          => store.lastVisit # Today]_vars

\* C24: when the streak has not been maintained the reminder is sent at
\* 11:00 PM and the failsafe runs at 11:15 PM: the reminder alarms are
\* created for 23:00 and the failsafe alarms for 23:15, local time.
C24_ReminderAt2300FailsafeAt2315 ==
    reminder.when # -1 =>
        /\ reminder.name \in ReminderNames => reminder.when % MsPerDay = TimeOfDay(23, 0)
        /\ reminder.name \in FailsafeNames => reminder.when % MsPerDay = TimeOfDay(23, 15)

\* the five keys of the stored state
Keys == {"streak", "lastVisit", "streakMaintainedToday", "syncedWithDailyDev",
         "lastSyncTime"}

\* C25: a storage write changes only the keys it names and drops none: all
\* five keys stay present, updateStreak leaves lastSyncTime as it is, the
\* write of a scheduled or manual force sync leaves lastVisit and
\* streakMaintainedToday as they are, and the second write of the scheduled
\* sync leaves streak, syncedWithDailyDev and lastSyncTime as they are.
C25_WritesKeepOtherKeys ==
    [][/\ DOMAIN store' = Keys
       /\ ("set:internal" \in effects') => store'.lastSyncTime = store.lastSyncTime
       /\ (effects' \cap {"set:forceSync", "set:manualSync"} # {})
             => /\ store'.lastVisit = store.lastVisit
                /\ store'.streakMaintainedToday = store.streakMaintainedToday
       /\ ("set:lastVisit" \in effects')
             => /\ store'.streak = store.streak
                /\ store'.syncedWithDailyDev = store.syncedWithDailyDev
                /\ store'.lastSyncTime = store.lastSyncTime]_vars

\* a scheduled force sync has just stored a new count on a day that is not
\* maintained yet, and lastVisit and the flag are those of the earlier day
C25_Witness ==
    /\ "set:forceSync" \in effects
    /\ before.lastVisit.t = "date"
    /\ before.lastVisit # Today
    /\ store.streak # before.streak
    /\ store.lastSyncTime = Num(now)
    /\ store.lastVisit = before.lastVisit
    /\ store.streakMaintainedToday = before.streakMaintainedToday

\* C26: under any interleaving of the storage callbacks of updateStreak runs
\* of one calendar day the streak is incremented at most once: a run whose
\* write lands on a store that already holds lastVisit = today leaves the
\* store, and so the streak (old streak + 1, or 1), as it is.
C26_OneIncrementPerDay ==
    [][("set:internal" \in effects' /\ store.lastVisit = Today) => store' = store]_vars

\* the write of a second run has just landed on the store in which the first
\* run of the day had continued the streak, and the streak is the same
C26_Witness ==
    /\ "set:internal" \in effects
    /\ before.lastVisit = Today
    /\ before.streak.v >= 2
    /\ store = before
    /\ \E c \in pending : c.k = "us_set" /\ c.lv = yesterdayString(now) /\ ~c.err

\* the click automation has found an article link in the tab a failsafe
\* opened: the update of the streak is under way, or articleLoadListener
\* waits for the article page
LinkFoundByFailsafe ==
    \E t \in pending :
        /\ t.k = "fs_timeout"
        /\ t.tab \in openTabs
        /\ store.lastVisit # Today
        /\ \/ \E c \in pending : c.k \in {"us_get", "usc_get"} /\ c.id = t.id
           \/ \E l \in listeners : l.k = "articleLoad" /\ l.id = t.id /\ l.tab = t.tab

\* a storage operation has just failed
StorageFailed ==
    \/ "log:storageError" \in effects
    \/ \E c \in pending : c.k \in {"us_set", "usc_set"} /\ c.err

\* C27: once a failsafe that fired with lastVisit # today has opened its tab,
\* the tab has loaded and the click automation has found an article link,
\* then, callbacks being scheduled fairly within the day, the store
\* eventually has lastVisit = today and streakMaintainedToday = true, unless
\* a storage operation fails.
C27_FailsafeMaintainsStreak ==
    LinkFoundByFailsafe
        ~> \/ store.lastVisit = Today /\ store.streakMaintainedToday = Bool(TRUE)
           \/ StorageFailed

\* the callbacks of a failsafe that has been evaluated and whose tab has not
\* loaded yet
FailsafeKinds == {"fs_get", "fs_create", "fs_delay"}

\* C28: alarms due at the same instant are evaluated one after the other, a
\* later one deciding on the state the earlier ones left: when the handler
\* of a failsafe alarm decides, no failsafe that an alarm evaluated before
\* it started is still on its way (reading storage, opening its tab, waiting
\* for it to load).
C28_AlarmsEvaluatedInTurn ==
    [][\A c \in pending :
          (c.k \in FailsafeNames /\ c \notin pending')
          => /\ \A d \in pending : d.id # c.id => d.k \notin FailsafeKinds
             /\ \A l \in listeners : l.id # c.id => l.k # "failsafeLoad"]_vars

\* the minute of the day a 12-hour reading "h:mm AM/PM" stands for
MinuteOfDay(reading) ==
    (((reading.hour % 12) + (IF reading.pm THEN 12 ELSE 0)) * 60) + reading.minute

\* the minute of the day at which an alarm is scheduled
AlarmMinute(name) == (AlarmTime(name).hour * 60) + AlarmTime(name).minute

\* C29: the failsafe time a reminder notification names is the next failsafe
\* after that reminder on the same day: the first reminder names the first
\* failsafe's time and the urgent one the second's, the named time is later
\* than the reminder's own time, and no failsafe is scheduled in between.
C29_ReminderNamesNextFailsafe ==
    \A c \in pending :
        c.k = "notify_cb" =>
            LET own == AlarmMinute(IF c.flag THEN "secondStreakReminder"
                                             ELSE "firstStreakReminder")
                named == MinuteOfDay(c.cnt)
            IN  /\ named = AlarmMinute(IF c.flag THEN "secondStreakFailsafe"
                                                  ELSE "firstStreakFailsafe")
                /\ named > own
                /\ \A f \in FailsafeNames :
                      ~(own < AlarmMinute(f) /\ AlarmMinute(f) < named)

\* the urgent reminder is being shown and names 10:15 PM
C29_Witness ==
    /\ "notify:urgentReminder" \in effects
    /\ \E c \in pending :
          /\ c.k = "notify_cb"
          /\ c.flag
          /\ c.cnt = [hour |-> 10, minute |-> 15, pm |-> TRUE]

\* clickFirstArticle reported no click, no article URL with "/posts/" and not
\* both articles and a link
NothingToClick(page) ==
    LET status == clickFirstArticle(page, NULL)
    IN  /\ ~status.clicked
        /\ ~status.articleUrlPosts
        /\ ~(status.articlesFound /\ status.linkFound)

\* the last extraction of a force sync gave no count the script accepts
NoCountExtracted(result) == result = UNDEF \/ ~ExtractedCountUsable(result)

\* C30: when the click automation reports no results, or a status with no
\* click, no article URL containing "/posts/" and not both articles and a
\* link, the step of clickArticleAndUpdateStreak leaves the store and the
\* listeners as they are and schedules nothing; and a scheduled or manual
\* force sync whose extraction gives no count leaves the store as it is.
C30_NothingFoundNothingWritten ==
    [][/\ (\/ "log:noResults" \in effects'
           \/ \E page \in Pages : page \in effects' /\ NothingToClick(page))
          => /\ store' = store
             /\ listeners' = listeners
             /\ pending' \subseteq pending
       /\ \A c \in pending :
             (c.k \in {"sync_extract", "manual_extract"} /\ c \notin pending'
                /\ NoCountExtracted(observed'))
             => store' = store]_vars

\* a click status with articles but no link has just been handled and the
\* operation is over
C30_Witness ==
    /\ "noLink" \in effects
    /\ "log:clickFailed" \in effects
    /\ pending = {}
    /\ listeners = {}
    /\ store = before

\* C31: the extraction that an article-load wait injects runs in the tab the
\* wait was registered for: a load-complete event of another tab at a URL
\* containing "/posts/" makes no wait of clickArticleAndUpdateStreak react.
C31_ArticleWaitReactsToOwnTab ==
    [][\A c \in pending' \ pending :
          c.k = "art_extract"
          => \E l \in listeners :
                l.k = "articleLoad" /\ l.id = c.id /\ l.tab = c.tab]_vars

\* C32: the click automation is never in flight twice for the same tab: for
\* one failsafe firing and the one load-complete event of the tab it opened,
\* clickArticleAndUpdateStreak is not run both by the global listener's
\* handler and by the failsafe's own tab-load listener.
C32_OneClickInjectionPerLoad ==
    \A c, d \in pending :
        (c.k = "click_cb" /\ d.k = "click_cb" /\ c.tab = d.tab) => c = d

\* C33: the write of lastVisit = today that clickArticleAndUpdateStreak leads
\* to is never made while the click that clickFirstArticle scheduled on its
\* 500 ms timer for the same operation is still waiting.
C33_NoWriteBeforeClick ==
    [][\A c \in pending :
          (/\ c.k \in {"us_get", "usc_get"}
           /\ c \notin pending'
           /\ effects' \cap {"set:internal", "set:synced"} # {}
           /\ store'.lastVisit = toDateString(now))
          => ~\E t \in pending : t.k = "link_click" /\ t.id = c.id]_vars

\* the callbacks of a manual sync that have still to answer the popup
ManualKinds == {"manual_delay", "manual_extract", "manual_set"}

\* C34: sendResponse is invoked once for a forceSyncStreak message: the 30 s
\* timer answers the popup only when the request has not been answered, that
\* is when its tabLoadListener is still registered or one of its callbacks
\* is still to run.
C34_OneResponsePerMessage ==
    [][\A c \in pending :
          (c.k = "manual_timeout" /\ c \notin pending' /\ "respond:timeout" \in effects')
          => \/ Listener("manualLoad", c.id, c.tab, FALSE, NULL) \in listeners
             \/ \E d \in pending : d.id = c.id /\ d.k \in ManualKinds]_vars

\* the fields a manual sync writes
ManualSyncKeys == {"streak", "syncedWithDailyDev", "lastSyncTime"}

\* C35: a forceSyncStreak request whose first answer was a failure leaves the
\* stored streak, syncedWithDailyDev and lastSyncTime as they are, also
\* afterwards: once the 30 s timer has answered "Timeout" (it is no longer
\* scheduled and the extraction had not answered yet), the extraction's
\* callback writes none of the three fields.
C35_FailureLeavesStoreUnchanged ==
    [][\A c \in pending :
          (/\ c.k = "manual_extract"
           /\ c \notin pending'
           /\ ~\E t \in pending : t.k = "manual_timeout" /\ t.id = c.id)
          => \A key \in ManualSyncKeys : store'[key] = store[key]]_vars

\* the ids chrome.tabs.create can give to a tab the extension opens
OpenedTabs == (MaxTabs + 1)..(MaxTabs + MaxEvents)

\* tab t was opened by a scheduled or manual sync and is still open: its
\* 30 s timer is still to run
SyncTabOpen(t) ==
    /\ t \in openTabs
    /\ \E c \in pending : c.k \in {"sync_timeout", "manual_timeout"} /\ c.tab = t

\* C36: every tab opened by the scheduled force sync or by the manual sync
\* is eventually closed, whatever becomes of the page load and the
\* extraction.
C36_SyncTabsEventuallyClosed ==
    \A t \in OpenedTabs : SyncTabOpen(t) ~> (t \notin openTabs)

\* a sync's tab is open and its page has not finished loading
C36_Witness ==
    \E l \in listeners :
        /\ l.k \in {"syncLoad", "manualLoad"}
        /\ SyncTabOpen(l.tab)

\* lastVisit value a is null, or a calendar day not later than day b
NotLaterDay(a, b) == a = NULL \/ (a.t = "date" /\ b.t = "date" /\ a.v <= b.v)

\* C37: no write other than the install handler's moves the stored lastVisit
\* to an earlier calendar day or back to null.
C37_LastVisitNeverMovesBack ==
    [][("set:install" \notin effects' /\ store'.lastVisit # store.lastVisit)
        => NotLaterDay(store.lastVisit, store'.lastVisit)]_vars

\* C38: at most one "Daily.dev Streak Maintained!" notification is created
\* per calendar day: two steps in a row, with no tick of the clock between
\* them, never both create one.
C38_OneMaintainedNotificationPerDay ==
    [][~("notify:maintained" \in effects /\ "notify:maintained" \in effects')]_vars

====
